---- MODULE Spec2Model ----
(***************************************************************************)
(* A model of the poker equity server of backend/main.cpp: the helper      *)
(* getHandCategory and the two POST handlers, /equity and /evaluate.       *)
(* Text is a sequence of one-character strings.  The OMPEval library       *)
(* (CardRange, Hand, HandEvaluator, EquityCalculator) is modelled from its *)
(* specification; the handlers are modelled from their code.               *)
(***************************************************************************)
EXTENDS Integers, Sequences, FiniteSets

VARIABLES
    route,          \* which code runs: "category", "evaluate" or "equity"
    pc,             \* the handler's position
    body,           \* the request body as json::parse finds it
    res,            \* httplib::Response: status and the JSON content set
    \* ---- /evaluate locals
    cards,          \* std::vector<std::string> cards
    card,           \* std::string card, the token being accumulated
    h,              \* Hand h
    ranking,        \* int ranking
    category,       \* std::string category
    evalLog,        \* the hands HandEvaluator::evaluate was invoked on, in order
    \* ---- getHandCategory applied to a second ranking
    otherRanking,
    otherCategory,
    \* ---- /equity locals
    hands,          \* std::vector<std::string> hands
    boardMask,
    deadMask,
    enumerateAll,
    ranges,         \* std::vector<CardRange> ranges
    calc,           \* EquityCalculator calc
    results,        \* auto results = calc.getResults()
    calls           \* the calls made on calc, in order, with their arguments

vars == <<route, pc, body, res, cards, card, h, ranking, category, evalLog,
          otherRanking, otherCategory, hands, boardMask, deadMask,
          enumerateAll, ranges, calc, results, calls>>

----------------------------------------------------------------------------
\* Bounds of the model.

\* Rankings outside 0 .. 9*4096-1 tried on getHandCategory, on each side.
RankSlack == 2
\* /evaluate hand text: at most this many leading well-formed distinct cards ...
MaxPrefix == 7
\* ... followed by at most this many arbitrary pieces.
MaxPieces == 3
\* /equity: at most this many entries in the hands array.
MaxHandsSent == 7
\* /equity: at most this many cards in the board text.
MaxBoardSent == 6
\* The engine's outcome is one of MaxOutcome+1 results.
MaxOutcome == 1

----------------------------------------------------------------------------
\* Program constants.

\* ranking / 4096
CategoryDivisor == 4096
\* case 8 is the last named category
LastCategory == 8
\* cards.size() > 7
MaxCards == 7
\* hands.size() < 2
MinHands == 2
\* hands.size() > 6
MaxHands == 6
\* board.length() <= 6
EnumerateAllMaxLength == 6
\* for (int i = 0; i < 52; i++)
DeckSize == 52
\* res.status = 400
StatusBadRequest == 400
\* res.status = 500
StatusServerError == 500

----------------------------------------------------------------------------
\* C++ integer division truncates toward zero.
CppDiv(a, b) == IF a >= 0 THEN a \div b ELSE -((-a) \div b)

CategoryNames ==
    <<"High Card", "Pair", "Two Pair", "Three of a Kind", "Straight",
      "Flush", "Full House", "Four of a Kind", "Straight Flush">>

getHandCategoryOffByOne(r) ==
    LET c == CppDiv(r, CategoryDivisor + 1)
    IN  IF c >= 0 /\ c <= LastCategory THEN CategoryNames[c + 1] ELSE "Unknown"

getHandCategory(r) ==
    LET c == CppDiv(r, CategoryDivisor)
    IN  CASE c = 0 -> "High Card"
          [] c = 1 -> "Pair"
          [] c = 2 -> "Two Pair"
          [] c = 3 -> "Three of a Kind"
          [] c = 4 -> "Straight"
          [] c = 5 -> "Flush"
          [] c = 6 -> "Full House"
          [] c = 7 -> "Four of a Kind"
          [] c = 8 -> "Straight Flush"
          [] OTHER -> "Unknown"

----------------------------------------------------------------------------
\* Card Codec (omp/CardRange, from its specification).

RankChars == <<"2", "3", "4", "5", "6", "7", "8", "9", "T", "J", "Q", "K", "A">>
RankCharsLower == <<"2", "3", "4", "5", "6", "7", "8", "9", "t", "j", "q", "k", "a">>
SuitChars == <<"s", "h", "d", "c">>

IsRankChar(ch) == \E k \in 1..Len(RankChars) : ch = RankChars[k] \/ ch = RankCharsLower[k]
IsSuitChar(ch) == \E k \in 1..Len(SuitChars) : ch = SuitChars[k]
RankOf(ch) == CHOOSE k \in 1..Len(RankChars) : ch = RankChars[k] \/ ch = RankCharsLower[k]
SuitOf(ch) == CHOOSE k \in 1..Len(SuitChars) : ch = SuitChars[k]

\* A card is an integer in 0..51: rank-major, four suits per rank.
CardIndex(rankCh, suitCh) == Len(SuitChars) * (RankOf(rankCh) - 1) + (SuitOf(suitCh) - 1)
CardText(c) == <<RankChars[(c \div Len(SuitChars)) + 1], SuitChars[(c % Len(SuitChars)) + 1]>>

\* parseCard: one rank character followed by one suit character.
IsCardToken(tok) == Len(tok) = 2 /\ IsRankChar(tok[1]) /\ IsSuitChar(tok[2])
parseCard(tok) == CardIndex(tok[1], tok[2])

ParseFailure == [ok |-> FALSE, mask |-> {}]

\* parseCardSequence: consecutive 2-character tokens, whitespace between tokens
\* skipped, a malformed token or a repeated card fails.
RECURSIVE parseCardSequence(_, _)
parseCardSequence(text, acc) ==
    IF text = <<>> THEN [ok |-> TRUE, mask |-> acc]
    ELSE IF Head(text) = " " THEN parseCardSequence(Tail(text), acc)
    ELSE IF Len(text) < 2 THEN ParseFailure
    ELSE LET tok == SubSeq(text, 1, 2)
         IN  IF ~IsCardToken(tok) THEN ParseFailure
             ELSE IF parseCard(tok) \in acc THEN ParseFailure
             ELSE parseCardSequence(SubSeq(text, 3, Len(text)), acc \cup {parseCard(tok)})

\* CardRange::getCardMask(text): the mask as the set of its bits, or a ParseError.
getCardMask(text) == parseCardSequence(text, {})

----------------------------------------------------------------------------
\* Hand (omp/Hand.h, from its specification): a mask plus a card count, so
\* that adding a card already present leaves the mask short of the count.

HandEmpty == [mask |-> {}, count |-> 0]
HandOf(c) == [mask |-> {c}, count |-> 1]
HandAdd(a, b) == [mask |-> a.mask \cup b.mask, count |-> a.count + b.count]

\* HandEvaluator::evaluate yields some ranking of the 9 categories; the model
\* keeps the first and the last ranking of each category.
EvalRankings ==
    {c * CategoryDivisor + off : c \in 0..LastCategory, off \in {0, CategoryDivisor - 1}}

----------------------------------------------------------------------------
\* The response, and the variables each piece of code leaves alone.

\* httplib answers 200 unless the handler sets another status.
NoResponse == [status |-> 200, body |-> [pending |-> TRUE]]
ErrorResponse(status, msg) == [status |-> status, body |-> [error |-> msg]]
Responded == "pending" \notin DOMAIN res.body
IsError == "error" \in DOMAIN res.body

EvaluateLocalsInit ==
    /\ cards = <<>>
    /\ card = <<>>
    /\ h = HandEmpty
    /\ ranking = 0
    /\ category = ""
    /\ evalLog = <<>>

OtherInit ==
    /\ otherRanking = 0
    /\ otherCategory = ""

\* What getResults() reads before the workers have finished.
UnfinishedResult ==
    [equity |-> [i \in 1..MaxHands |-> 0],
     wins   |-> [i \in 1..MaxHands |-> 0],
     ties   |-> [i \in 1..MaxHands |-> 0],
     hands  |-> 0,
     speed  |-> 0]

\* EquityCalculator calc, as constructed.
IdleCalculator ==
    [state |-> "Idle", ranges |-> <<>>, board |-> {}, dead |-> {},
     enumerateAll |-> FALSE, results |-> UnfinishedResult]

EquityLocalsInit ==
    /\ hands = <<>>
    /\ boardMask = {}
    /\ deadMask = {}
    /\ enumerateAll = FALSE
    /\ ranges = <<>>
    /\ calc = IdleCalculator
    /\ results = UnfinishedResult
    /\ calls = <<>>

equityVars == <<hands, boardMask, deadMask, enumerateAll, ranges, calc, results, calls>>
otherVars == <<otherRanking, otherCategory>>

----------------------------------------------------------------------------
\* getHandCategory on its own: two rankings, each given its category.

AllRankings == (0 - RankSlack) .. ((LastCategory + 1) * CategoryDivisor - 1 + RankSlack)

CategoryInit ==
    /\ route = "category"
    /\ pc = "start"
    /\ body = [parses |-> TRUE]
    /\ res = NoResponse
    /\ ranking \in AllRankings
    /\ otherRanking \in EvalRankings
    /\ cards = <<>> /\ card = <<>> /\ h = HandEmpty /\ evalLog = <<>>
    /\ category = "" /\ otherCategory = ""
    /\ EquityLocalsInit

Categorize ==
    /\ route = "category" /\ pc = "start"
    /\ category' = getHandCategory(ranking)
    /\ otherCategory' = getHandCategory(otherRanking)
    /\ pc' = "done"
    /\ UNCHANGED <<route, body, res, cards, card, h, ranking, evalLog, otherRanking>>
    /\ UNCHANGED equityVars

CategoryNext == Categorize
SpecCategory == CategoryInit /\ [][CategoryNext]_vars

\* The position of a category name in the list of the 9 standard categories
\* (0 when it is none of them).
CategoryRank(name) ==
    IF \E k \in 1..Len(CategoryNames) : CategoryNames[k] = name
    THEN CHOOSE k \in 1..Len(CategoryNames) : CategoryNames[k] = name
    ELSE 0

InCategoryRange(r) == 0 <= r /\ r < (LastCategory + 1) * CategoryDivisor

\* C1: for every ranking r with 0 <= r < 9*4096 getHandCategory(r) is the name at
\* position r div 4096 of the category list, and of two such rankings the one
\* whose category comes later in the list is the strictly larger ranking.
C1_CategoryOrder ==
    (route = "category" /\ pc = "done") =>
        /\ InCategoryRange(ranking) =>
               category = CategoryNames[(ranking \div CategoryDivisor) + 1]
        /\ (InCategoryRange(ranking) /\ InCategoryRange(otherRanking)) =>
               /\ CategoryRank(category) > CategoryRank(otherCategory) => ranking > otherRanking
               /\ CategoryRank(category) < CategoryRank(otherCategory) => ranking < otherRanking

\* A flush ranking met with the highest straight ranking.
C1_Witness ==
    /\ route = "category" /\ pc = "done"
    /\ category = "Flush" /\ otherCategory = "Straight"
    /\ otherRanking = ranking - 1

----------------------------------------------------------------------------
\* POST /evaluate.

\* The request texts tried: a run of distinct well-formed cards (2s 2h 2d 2c
\* 3s ...) followed by a tail of pieces that may be a card, half a card, a
\* space or a character that is no card character.
Pieces == {<<"A", "h">>, <<"9">>, <<"h">>, <<" ">>, <<"Z">>}

RECURSIVE Flatten(_)
Flatten(ps) == IF ps = <<>> THEN <<>> ELSE Head(ps) \o Flatten(Tail(ps))

PrefixText(n) == Flatten([k \in 1..n |-> CardText(k - 1)])
PieceSeqs(n) == UNION {[1..k -> Pieces] : k \in 0..n}
HandTexts == {PrefixText(n) \o Flatten(ps) : n \in 0..MaxPrefix, ps \in PieceSeqs(MaxPieces)}

EvaluateBodies ==
    {[parses |-> FALSE, has_hand |-> FALSE, hand_is_string |-> FALSE, hand |-> <<>>],
     [parses |-> TRUE, has_hand |-> FALSE, hand_is_string |-> FALSE, hand |-> <<>>],
     [parses |-> TRUE, has_hand |-> TRUE, hand_is_string |-> FALSE, hand |-> <<>>]}
    \cup {[parses |-> TRUE, has_hand |-> TRUE, hand_is_string |-> TRUE, hand |-> t] :
            t \in HandTexts}

EvaluateInit ==
    /\ route = "evaluate"
    /\ pc = "start"
    /\ body \in EvaluateBodies
    /\ res = NoResponse
    /\ EvaluateLocalsInit
    /\ OtherInit
    /\ EquityLocalsInit

\* Lines 129-137: json::parse, the 'hand' field, get<std::string>().
EvaluateParse ==
    /\ route = "evaluate" /\ pc = "start"
    /\ \/ /\ ~body.parses
          /\ res' = ErrorResponse(StatusServerError, "parse_error")
          /\ pc' = "done"
       \/ /\ body.parses /\ ~body.has_hand
          /\ res' = ErrorResponse(StatusBadRequest, "Missing 'hand' field")
          /\ pc' = "done"
       \/ /\ body.parses /\ body.has_hand /\ ~body.hand_is_string
          /\ res' = ErrorResponse(StatusServerError, "type_error")
          /\ pc' = "done"
       \/ /\ body.parses /\ body.has_hand /\ body.hand_is_string
          /\ res' = res
          /\ pc' = "split"
    /\ UNCHANGED <<route, body, cards, card, h, ranking, category, evalLog>>
    /\ UNCHANGED otherVars
    /\ UNCHANGED equityVars

\* The loop of lines 143-151 from index i on: spaces are skipped wherever they
\* stand, every second other character completes a token.
RECURSIVE SplitCards(_, _, _, _)
SplitCards(handStr, i, cd, cds) ==
    IF i > Len(handStr) THEN [cards |-> cds, card |-> cd]
    ELSE IF handStr[i] = " " THEN SplitCards(handStr, i + 1, cd, cds)
    ELSE LET grown == Append(cd, handStr[i])
         IN  IF Len(grown) = 2
             THEN SplitCards(handStr, i + 1, <<>>, Append(cds, grown))
             ELSE SplitCards(handStr, i + 1, grown, cds)

\* Lines 141-151.
EvaluateSplit ==
    /\ route = "evaluate" /\ pc = "split"
    /\ LET split == SplitCards(body.hand, 1, <<>>, <<>>)
       IN  /\ cards' = split.cards
           /\ card' = split.card
    /\ pc' = "check"
    /\ UNCHANGED <<route, body, res, h, ranking, category, evalLog>>
    /\ UNCHANGED otherVars
    /\ UNCHANGED equityVars

\* The count check without its cards.empty() half.
EvaluateCheckCountNoEmpty ==
    /\ route = "evaluate" /\ pc = "check"
    /\ \/ /\ Len(cards) > MaxCards
          /\ res' = ErrorResponse(StatusBadRequest, "Hand must contain 0-7 cards")
          /\ pc' = "done"
          /\ h' = h
       \/ /\ ~(Len(cards) > MaxCards)
          /\ res' = res
          /\ h' = HandEmpty
          /\ pc' = "build"
    /\ UNCHANGED <<route, body, cards, card, ranking, category, evalLog>>
    /\ UNCHANGED otherVars
    /\ UNCHANGED equityVars

\* Lines 153-161: the count check, then HandEvaluator eval; Hand h = Hand::empty().
EvaluateCheckCount ==
    /\ route = "evaluate" /\ pc = "check"
    /\ \/ /\ (cards = <<>> \/ Len(cards) > MaxCards)
          /\ res' = ErrorResponse(StatusBadRequest, "Hand must contain 0-7 cards")
          /\ pc' = "done"
          /\ h' = h
       \/ /\ ~(cards = <<>> \/ Len(cards) > MaxCards)
          /\ res' = res
          /\ h' = HandEmpty
          /\ pc' = "build"
    /\ UNCHANGED <<route, body, cards, card, ranking, category, evalLog>>
    /\ UNCHANGED otherVars
    /\ UNCHANGED equityVars

\* Lines 166-172: the lowest set bit below 52 of the mask, 0 when there is none.
MaskToCardIndex(mask) ==
    LET bits == mask \cap (0..(DeckSize - 1))
    IN  IF bits = {} THEN 0 ELSE CHOOSE c \in bits : \A d \in bits : c <= d

\* The loop of lines 163-174 over the tokens cs: getCardMask of each token (a
\* ParseError leaves the loop), the card index of the mask, h += Hand(cardIndex).
RECURSIVE BuildHand(_, _)
BuildHand(cs, hand) ==
    IF cs = <<>> THEN [ok |-> TRUE, h |-> hand]
    ELSE LET cardMask == getCardMask(Head(cs))
         IN  IF ~cardMask.ok THEN [ok |-> FALSE, h |-> hand]
             ELSE BuildHand(Tail(cs), HandAdd(hand, HandOf(MaskToCardIndex(cardMask.mask))))

\* Lines 163-174, and the catch of lines 187-191 when getCardMask throws.
EvaluateBuild ==
    /\ route = "evaluate" /\ pc = "build"
    /\ LET built == BuildHand(cards, h)
       IN  /\ h' = built.h
           /\ \/ /\ ~built.ok
                 /\ res' = ErrorResponse(StatusServerError, "ParseError")
                 /\ pc' = "done"
              \/ /\ built.ok
                 /\ res' = res
                 /\ pc' = "evaluate"
    /\ UNCHANGED <<route, body, cards, card, ranking, category, evalLog>>
    /\ UNCHANGED otherVars
    /\ UNCHANGED equityVars

\* Lines 176-185: eval.evaluate(h), getHandCategory, the response.
EvaluateRank ==
    /\ route = "evaluate" /\ pc = "evaluate"
    /\ \E r \in EvalRankings :
          /\ evalLog' = Append(evalLog, h)
          /\ ranking' = r
          /\ category' = getHandCategory(r)
          /\ res' = [status |-> res.status,
                     body |-> [ranking |-> r,
                               category |-> getHandCategory(r),
                               num_cards |-> Len(cards)]]
    /\ pc' = "done"
    /\ UNCHANGED <<route, body, cards, card, h>>
    /\ UNCHANGED otherVars
    /\ UNCHANGED equityVars

EvaluateNext ==
    \/ EvaluateParse
    \/ EvaluateSplit
    \/ EvaluateCheckCount
    \/ EvaluateBuild
    \/ EvaluateRank

SpecEvaluate == EvaluateInit /\ [][EvaluateNext]_vars

----------------------------------------------------------------------------
\* Claims about POST /evaluate.

\* The card tokens of a hand text, read off the text itself: its characters
\* other than spaces, in twos; a last odd character is a token of length 1.
NonSpace(text) == SelectSeq(text, LAMBDA ch : ch # " ")
CompleteTokens(text) ==
    LET ns == NonSpace(text)
    IN  [k \in 1..(Len(ns) \div 2) |-> SubSeq(ns, 2 * k - 1, 2 * k)]
AllTokens(text) ==
    LET ns == NonSpace(text)
    IN  [k \in 1..((Len(ns) + 1) \div 2) |->
            SubSeq(ns, 2 * k - 1, IF 2 * k <= Len(ns) THEN 2 * k ELSE Len(ns))]
HasMalformedToken(text) ==
    \E k \in DOMAIN AllTokens(text) : ~IsCardToken(AllTokens(text)[k])
AllWellFormed(toks) == \A k \in DOMAIN toks : IsCardToken(toks[k])
HandOfTokens(toks) ==
    [mask |-> {parseCard(toks[k]) : k \in DOMAIN toks}, count |-> Len(toks)]

HasStringHand == body.parses /\ body.has_hand /\ body.hand_is_string
EvaluateDone == route = "evaluate" /\ pc = "done"
HasRankingFields == "ranking" \in DOMAIN res.body \/ "category" \in DOMAIN res.body

\* C2: a /evaluate request whose hand text has a malformed token (a token of
\* length other than 2, a last odd character included, or a rank or suit
\* character that is none) fails with an error; no ranking or category is
\* returned and the evaluator is not run on a hand without that token.
C2_MalformedRejected ==
    (EvaluateDone /\ HasStringHand /\ HasMalformedToken(body.hand)) =>
        (IsError /\ ~HasRankingFields /\ evalLog = <<>>)

\* C3 as stated: 0 or more than 7 tokens fail with a client-input error and
\* the evaluator is never invoked; 1 to 7 tokens pass the count check and the
\* evaluator is invoked exactly once on the hand of those tokens.
C3_CountDecidesEvaluation ==
    (EvaluateDone /\ HasStringHand) =>
        LET toks == CompleteTokens(body.hand)
        IN  /\ (Len(toks) = 0 \/ Len(toks) > MaxCards) =>
                   (res.status = StatusBadRequest /\ IsError /\ evalLog = <<>>)
            /\ (Len(toks) >= 1 /\ Len(toks) <= MaxCards) =>
                   /\ Len(evalLog) = 1
                   /\ evalLog[1].count = Len(toks)

\* C3 (amended): 0 or more than 7 tokens fail with a client-input error and the
\* evaluator is never invoked; 1 to 7 tokens pass the count check, and then the
\* evaluator is invoked exactly once, on the hand of exactly those tokens, if
\* every token is a well-formed card, and is not invoked at all (the request
\* fails with an error) if some token is not.
C3_CountThenTokensDecideEvaluation ==
    /\ Len(evalLog) <= 1
    /\ (route = "evaluate" /\ HasStringHand) =>
        LET toks == CompleteTokens(body.hand)
        IN  /\ (Len(toks) = 0 \/ Len(toks) > MaxCards) =>
                   /\ evalLog = <<>>
                   /\ pc \notin {"build", "evaluate"}
                   /\ pc = "done" => (res.status = StatusBadRequest /\ IsError)
            /\ (Len(toks) >= 1 /\ Len(toks) <= MaxCards /\ pc = "done") =>
                   IF AllWellFormed(toks)
                   THEN /\ evalLog = <<HandOfTokens(toks)>>
                        /\ ~IsError
                        /\ res.body.num_cards = Len(toks)
                   ELSE /\ evalLog = <<>>
                        /\ IsError

\* Seven well-formed tokens, evaluated once.
C3_Witness ==
    /\ EvaluateDone /\ HasStringHand
    /\ Len(CompleteTokens(body.hand)) = MaxCards
    /\ Len(evalLog) = 1
    /\ ~IsError

\* C10: every hand the /evaluate handler passes to the evaluator consists of
\* pairwise distinct cards (its mask holds as many cards as were added).
C10_EvaluatedCardsDistinct ==
    \A k \in DOMAIN evalLog : Cardinality(evalLog[k].mask) = evalLog[k].count

----------------------------------------------------------------------------
\* Range Parser and Equity Engine (omp/CardRange, omp/EquityCalculator, from
\* their specification).

\* CardRange(text), for the notations the requests tried use: the wildcard XX,
\* a pocket pair such as AA (its 6 suit combinations), an exact combo such as
\* AhKh; any other text is a RangeError.
CardRange(text) ==
    IF text = <<"X", "X">>
        THEN [ok |-> TRUE, wildcard |-> TRUE, combos |-> {}]
    ELSE IF Len(text) = 2 /\ IsRankChar(text[1]) /\ text[2] = text[1]
        THEN [ok |-> TRUE, wildcard |-> FALSE,
              combos |-> {{CardIndex(text[1], SuitChars[a]), CardIndex(text[1], SuitChars[b])} :
                            <<a, b>> \in {p \in (1..Len(SuitChars)) \X (1..Len(SuitChars)) : p[1] < p[2]}}]
    ELSE IF Len(text) = 4 /\ IsCardToken(SubSeq(text, 1, 2)) /\ IsCardToken(SubSeq(text, 3, 4))
            /\ parseCard(SubSeq(text, 1, 2)) # parseCard(SubSeq(text, 3, 4))
        THEN [ok |-> TRUE, wildcard |-> FALSE,
              combos |-> {{parseCard(SubSeq(text, 1, 2)), parseCard(SubSeq(text, 3, 4))}}]
    ELSE [ok |-> FALSE, wildcard |-> FALSE, combos |-> {}]

\* The combos of a range that share no card with the board and the dead cards.
SurvivingCombos(range, board, dead) ==
    {cb \in range.combos : cb \cap (board \cup dead) = {}}

\* What start() checks before any trial runs: the board holds at most 5 cards,
\* no card is both on the board and dead, and every range that is not the
\* wildcard keeps a combo.
BoardCards == 5
StartAccepts(rs, board, dead) ==
    /\ Cardinality(board) <= BoardCards
    /\ board \cap dead = {}
    /\ \A k \in DOMAIN rs : rs[k].wildcard \/ SurvivingCombos(rs[k], board, dead) # {}

\* The aggregated Result of a run that ended with outcome o, for n players:
\* per-player arrays of MAX_PLAYERS entries, the total and the throughput.
EngineResult(o, n) ==
    [equity |-> [i \in 1..MaxHands |-> IF i <= n THEN 100 * i + o ELSE 0],
     wins   |-> [i \in 1..MaxHands |-> IF i <= n THEN 10 * i + o ELSE 0],
     ties   |-> [i \in 1..MaxHands |-> IF i <= n THEN i + o ELSE 0],
     hands  |-> 1000 + o,
     speed  |-> 50 + o]

\* The workers of a started run finish and leave the aggregated Result.
EngineRun ==
    /\ route = "equity" /\ calc.state = "Running"
    /\ \E o \in 0..MaxOutcome :
          calc' = [calc EXCEPT !.state = "Finished",
                               !.results = EngineResult(o, Len(calc.ranges))]
    /\ UNCHANGED <<route, pc, body, res, hands, boardMask, deadMask, enumerateAll,
                   ranges, results, calls>>
    /\ UNCHANGED <<cards, card, h, ranking, category, evalLog>>
    /\ UNCHANGED otherVars

----------------------------------------------------------------------------
\* POST /equity.

\* The k-th range text of a request: AA, KK, QQ, ...
PairText(k) == <<RankChars[Len(RankChars) + 1 - k], RankChars[Len(RankChars) + 1 - k]>>

\* The hands arrays tried: n entries, all pocket pairs but at most one, which
\* is a text that is no range ("Z9") or a value that is no string.
HandsArrays ==
    {[k \in 1..n |-> [is_string |-> TRUE, text |-> PairText(k)]] : n \in 0..MaxHandsSent}
    \cup {[k \in 1..n |-> IF k = bad THEN [is_string |-> TRUE, text |-> <<"Z", "9">>]
                          ELSE [is_string |-> TRUE, text |-> PairText(k)]] :
            n \in 1..MaxHandsSent, bad \in 1..MaxHandsSent}
    \cup {[k \in 1..n |-> IF k = bad THEN [is_string |-> FALSE, text |-> <<>>]
                          ELSE [is_string |-> TRUE, text |-> PairText(k)]] :
            n \in 1..MaxHandsSent, bad \in 1..MaxHandsSent}

\* The board texts tried: the first n cards of the deck (2s 2h 2d 2c 3s ...),
\* joined with nothing or with a space, a text with a character that is no card
\* character, and a text that repeats a card.
RECURSIVE JoinCards(_, _)
JoinCards(n, sep) ==
    IF n = 0 THEN <<>>
    ELSE IF n = 1 THEN CardText(0)
    ELSE JoinCards(n - 1, sep) \o sep \o CardText(n - 1)

BoardTexts ==
    {JoinCards(n, sep) : n \in 0..MaxBoardSent, sep \in {<<>>, <<" ">>}}
    \cup {<<"Z", "z">>, <<"2", "s", "2", "s">>}

\* The dead texts tried: none, the first card of the board texts, another card,
\* and a text that is no card.
DeadTexts == {<<>>, CardText(0), <<"9", "c">>, <<"Z">>}

EquityBodies ==
    {[parses |-> FALSE, has_hands |-> FALSE, hands_is_array |-> FALSE, hands |-> <<>>,
      board |-> <<>>, dead |-> <<>>, enumerate_all |-> "absent"],
     [parses |-> TRUE, has_hands |-> FALSE, hands_is_array |-> FALSE, hands |-> <<>>,
      board |-> <<>>, dead |-> <<>>, enumerate_all |-> "absent"],
     [parses |-> TRUE, has_hands |-> TRUE, hands_is_array |-> FALSE, hands |-> <<>>,
      board |-> <<>>, dead |-> <<>>, enumerate_all |-> "absent"]}
    \cup {[parses |-> TRUE, has_hands |-> TRUE, hands_is_array |-> TRUE, hands |-> hs,
           board |-> b, dead |-> d, enumerate_all |-> e] :
            hs \in HandsArrays, b \in BoardTexts, d \in DeadTexts,
            e \in {"absent", "true", "false"}}

EquityInit ==
    /\ route = "equity"
    /\ pc = "start"
    /\ body \in EquityBodies
    /\ res = NoResponse
    /\ EvaluateLocalsInit
    /\ OtherInit
    /\ EquityLocalsInit

Call(op, arg) == [op |-> op, arg |-> arg]
evaluateVars == <<cards, card, h, ranking, category, evalLog>>

\* Lines 54-62: json::parse, then the 'hands' array.
EquityParse ==
    /\ route = "equity" /\ pc = "start"
    /\ \/ /\ ~body.parses
          /\ res' = ErrorResponse(StatusServerError, "parse_error")
          /\ pc' = "done"
       \/ /\ body.parses /\ (~body.has_hands \/ ~body.hands_is_array)
          /\ res' = ErrorResponse(StatusBadRequest, "Missing or invalid 'hands' array")
          /\ pc' = "done"
       \/ /\ body.parses /\ body.has_hands /\ body.hands_is_array
          /\ res' = res
          /\ pc' = "hands"
    /\ UNCHANGED <<route, body>>
    /\ UNCHANGED equityVars
    /\ UNCHANGED evaluateVars
    /\ UNCHANGED otherVars

\* The prefix of the array's texts that get<std::string>() is applied to
\* without throwing.
RECURSIVE StringPrefix(_)
StringPrefix(hs) ==
    IF hs = <<>> \/ ~Head(hs).is_string THEN <<>>
    ELSE <<Head(hs).text>> \o StringPrefix(Tail(hs))

\* The hands step with the upper half of its size check left out.
EquityHandsNoUpperLimit ==
    /\ route = "equity" /\ pc = "hands"
    /\ hands' = StringPrefix(body.hands)
    /\ \/ /\ Len(hands') < Len(body.hands)
          /\ res' = ErrorResponse(StatusServerError, "type_error")
          /\ pc' = "done"
       \/ /\ Len(hands') = Len(body.hands)
          /\ Len(hands') < MinHands
          /\ res' = ErrorResponse(StatusBadRequest, "Number of hands must be between 2 and 6")
          /\ pc' = "done"
       \/ /\ Len(hands') = Len(body.hands)
          /\ ~(Len(hands') < MinHands)
          /\ res' = res
          /\ pc' = "masks"
    /\ UNCHANGED <<route, body, boardMask, deadMask, enumerateAll, ranges, calc, results, calls>>
    /\ UNCHANGED evaluateVars
    /\ UNCHANGED otherVars

\* Lines 64-72: the hands are copied out (a value that is no string throws),
\* then their number is checked.
EquityHands ==
    /\ route = "equity" /\ pc = "hands"
    /\ hands' = StringPrefix(body.hands)
    /\ \/ /\ Len(hands') < Len(body.hands)
          /\ res' = ErrorResponse(StatusServerError, "type_error")
          /\ pc' = "done"
       \/ /\ Len(hands') = Len(body.hands)
          /\ (Len(hands') < MinHands \/ Len(hands') > MaxHands)
          /\ res' = ErrorResponse(StatusBadRequest, "Number of hands must be between 2 and 6")
          /\ pc' = "done"
       \/ /\ Len(hands') = Len(body.hands)
          /\ ~(Len(hands') < MinHands \/ Len(hands') > MaxHands)
          /\ res' = res
          /\ pc' = "masks"
    /\ UNCHANGED <<route, body, boardMask, deadMask, enumerateAll, ranges, calc, results, calls>>
    /\ UNCHANGED evaluateVars
    /\ UNCHANGED otherVars

\* Lines 74-83: the board mask, the dead mask (getCardMask is called only on a
\* text that is not empty, and a ParseError leaves the handler through its
\* catch), then enumerate_all, which defaults to board.length() <= 6.
EquityMasks ==
    /\ route = "equity" /\ pc = "masks"
    /\ LET boardParse == IF body.board = <<>> THEN [ok |-> TRUE, mask |-> {}]
                         ELSE getCardMask(body.board)
           deadParse  == IF body.dead = <<>> THEN [ok |-> TRUE, mask |-> {}]
                         ELSE getCardMask(body.dead)
           boardCall  == IF body.board = <<>> THEN <<>>
                         ELSE <<Call("getCardMask", body.board)>>
           deadCall   == IF body.dead = <<>> THEN <<>>
                         ELSE <<Call("getCardMask", body.dead)>>
       IN  \/ /\ ~boardParse.ok
              /\ calls' = calls \o boardCall
              /\ UNCHANGED <<boardMask, deadMask, enumerateAll>>
              /\ res' = ErrorResponse(StatusServerError, "ParseError")
              /\ pc' = "done"
           \/ /\ boardParse.ok /\ ~deadParse.ok
              /\ calls' = calls \o boardCall \o deadCall
              /\ boardMask' = boardParse.mask
              /\ UNCHANGED <<deadMask, enumerateAll>>
              /\ res' = ErrorResponse(StatusServerError, "ParseError")
              /\ pc' = "done"
           \/ /\ boardParse.ok /\ deadParse.ok
              /\ calls' = calls \o boardCall \o deadCall
              /\ boardMask' = boardParse.mask
              /\ deadMask' = deadParse.mask
              /\ enumerateAll' =
                    CASE body.enumerate_all = "true" -> TRUE
                      [] body.enumerate_all = "false" -> FALSE
                      [] OTHER -> Len(body.board) <= EnumerateAllMaxLength
              /\ res' = res
              /\ pc' = "ranges"
    /\ UNCHANGED <<route, body, hands, ranges, calc, results>>
    /\ UNCHANGED evaluateVars
    /\ UNCHANGED otherVars

\* The ranges built, in order, until one text is no range.
RECURSIVE BuildRanges(_)
BuildRanges(hs) ==
    IF hs = <<>> \/ ~CardRange(Head(hs)).ok THEN <<>>
    ELSE <<CardRange(Head(hs))>> \o BuildRanges(Tail(hs))

\* Lines 85-92: EquityCalculator calc; a CardRange of every hand.
EquityRanges ==
    /\ route = "equity" /\ pc = "ranges"
    /\ ranges' = BuildRanges(hands)
    /\ \/ /\ Len(ranges') < Len(hands)
          /\ calls' = calls \o [k \in 1..(Len(ranges') + 1) |-> Call("CardRange", hands[k])]
          /\ res' = ErrorResponse(StatusServerError, "RangeError")
          /\ pc' = "done"
       \/ /\ Len(ranges') = Len(hands)
          /\ calls' = calls \o [k \in 1..Len(hands) |-> Call("CardRange", hands[k])]
          /\ res' = res
          /\ pc' = "start_calc"
    /\ UNCHANGED <<route, body, hands, boardMask, deadMask, enumerateAll, calc, results>>
    /\ UNCHANGED evaluateVars
    /\ UNCHANGED otherVars

\* Line 95: calc.start(ranges, boardMask, deadMask, enumerateAll).
EquityStart ==
    /\ route = "equity" /\ pc = "start_calc"
    /\ calls' = Append(calls, Call("start", [ranges |-> ranges, board |-> boardMask,
                                             dead |-> deadMask, enumerateAll |-> enumerateAll]))
    /\ \/ /\ ~StartAccepts(ranges, boardMask, deadMask)
          /\ calc' = calc
          /\ res' = ErrorResponse(StatusServerError, "ConfigError")
          /\ pc' = "done"
       \/ /\ StartAccepts(ranges, boardMask, deadMask)
          /\ calc' = [calc EXCEPT !.state = "Running", !.ranges = ranges,
                                  !.board = boardMask, !.dead = deadMask,
                                  !.enumerateAll = enumerateAll]
          /\ res' = res
          /\ pc' = "wait"
    /\ UNCHANGED <<route, body, hands, boardMask, deadMask, enumerateAll, ranges, results>>
    /\ UNCHANGED evaluateVars
    /\ UNCHANGED otherVars

\* The handler going on to getResults() without calling wait().
EquityWaitSkipped ==
    /\ route = "equity" /\ pc = "wait"
    /\ pc' = "results"
    /\ UNCHANGED <<route, body, res>>
    /\ UNCHANGED equityVars
    /\ UNCHANGED evaluateVars
    /\ UNCHANGED otherVars

\* Line 96: calc.wait() returns once the workers have finished.
EquityWait ==
    /\ route = "equity" /\ pc = "wait"
    /\ calc.state = "Finished"
    /\ calls' = Append(calls, Call("wait", calc.state))
    /\ pc' = "results"
    /\ UNCHANGED <<route, body, res, hands, boardMask, deadMask, enumerateAll, ranges,
                   calc, results>>
    /\ UNCHANGED evaluateVars
    /\ UNCHANGED otherVars

\* Line 99: auto results = calc.getResults().
EquityGetResults ==
    /\ route = "equity" /\ pc = "results"
    /\ calls' = Append(calls, Call("getResults", calc.state))
    /\ results' = calc.results
    /\ pc' = "respond"
    /\ UNCHANGED <<route, body, res, hands, boardMask, deadMask, enumerateAll, ranges, calc>>
    /\ UNCHANGED evaluateVars
    /\ UNCHANGED otherVars

\* The response built with one entry too few in each array.
EquityRespondOneShort ==
    /\ route = "equity" /\ pc = "respond"
    /\ res' = [status |-> res.status,
               body |-> [equities |-> [i \in 1..(Len(hands) - 1) |-> results.equity[i]],
                         wins |-> [i \in 1..(Len(hands) - 1) |-> results.wins[i]],
                         ties |-> [i \in 1..(Len(hands) - 1) |-> results.ties[i]],
                         hands_evaluated |-> results.hands,
                         speed |-> results.speed,
                         enumerated_all |-> enumerateAll]]
    /\ pc' = "done"
    /\ UNCHANGED <<route, body>>
    /\ UNCHANGED equityVars
    /\ UNCHANGED evaluateVars
    /\ UNCHANGED otherVars

\* Lines 101-117: the response, one equities, wins and ties entry per hand.
EquityRespond ==
    /\ route = "equity" /\ pc = "respond"
    /\ res' = [status |-> res.status,
               body |-> [equities |-> [i \in 1..Len(hands) |-> results.equity[i]],
                         wins |-> [i \in 1..Len(hands) |-> results.wins[i]],
                         ties |-> [i \in 1..Len(hands) |-> results.ties[i]],
                         hands_evaluated |-> results.hands,
                         speed |-> results.speed,
                         enumerated_all |-> enumerateAll]]
    /\ pc' = "done"
    /\ UNCHANGED <<route, body>>
    /\ UNCHANGED equityVars
    /\ UNCHANGED evaluateVars
    /\ UNCHANGED otherVars

EquityNext ==
    \/ EquityParse
    \/ EquityHands
    \/ EquityMasks
    \/ EquityRanges
    \/ EquityStart
    \/ EngineRun
    \/ EquityWait
    \/ EquityGetResults
    \/ EquityRespond

SpecEquity == EquityInit /\ [][EquityNext]_vars

----------------------------------------------------------------------------
\* Claims about POST /equity.

HasHandsArray == body.parses /\ body.has_hands /\ body.hands_is_array
EquityDone == route = "equity" /\ pc = "done"
ResultFields == {"equities", "wins", "ties", "hands_evaluated", "speed", "enumerated_all"}
EngineOps == {"start", "wait", "getResults"}
EngineCalls == SelectSeq(calls, LAMBDA c : c.op \in EngineOps)
StartCalls == SelectSeq(calls, LAMBDA c : c.op = "start")
IsPrefix(a, b) == Len(a) <= Len(b) /\ \A k \in 1..Len(a) : a[k] = b[k]

\* C4: a /equity request whose hands array has fewer than 2 or more than 6
\* entries is aborted with an error before any engine work: no board, dead or
\* range text is parsed, start() is never called, no result field is returned.
C4_HandCountRejectedFirst ==
    (route = "equity" /\ HasHandsArray
        /\ (Len(body.hands) < MinHands \/ Len(body.hands) > MaxHands)) =>
        /\ calls = <<>>
        /\ calc = IdleCalculator
        /\ <<boardMask, deadMask, ranges>> = <<{}, {}, <<>>>>
        /\ pc \in {"start", "hands", "done"}
        /\ pc = "done" => (IsError /\ DOMAIN res.body \cap ResultFields = {})

\* Seven hands, all of them strings, answered 400.
C4_Witness ==
    /\ EquityDone /\ HasHandsArray
    /\ Len(body.hands) > MaxHands
    /\ Len(hands) = Len(body.hands)
    /\ res.status = StatusBadRequest

\* C5: a /equity request whose board text holds more than 5 cards is rejected
\* before the engine is started: start() is never called and no equities are
\* returned.
C5_LongBoardNeverStarted ==
    (route = "equity" /\ HasHandsArray /\ Len(CompleteTokens(body.board)) > 5) =>
        /\ StartCalls = <<>>
        /\ "equities" \notin DOMAIN res.body

\* C6: the engine calls of a /equity request are start(), then wait(), then
\* getResults(), each at most once; wait() returns, and getResults() is called,
\* only when the run has finished; the values of the response are those that
\* getResults() read from the calculator.
C6_EngineCallOrder ==
    route = "equity" =>
        /\ IsPrefix([k \in 1..Len(EngineCalls) |-> EngineCalls[k].op],
                    <<"start", "wait", "getResults">>)
        /\ \A k \in 1..Len(EngineCalls) :
              EngineCalls[k].op \in {"wait", "getResults"} => EngineCalls[k].arg = "Finished"
        /\ (pc = "done" /\ ~IsError) =>
              /\ Len(EngineCalls) = 3
              /\ results = calc.results
              /\ results # UnfinishedResult
              /\ \A i \in 1..Len(hands) :
                    /\ res.body.equities[i] = calc.results.equity[i]
                    /\ res.body.wins[i] = calc.results.wins[i]
                    /\ res.body.ties[i] = calc.results.ties[i]
              /\ res.body.hands_evaluated = calc.results.hands
              /\ res.body.speed = calc.results.speed

\* A request answered with the results of a finished run.
C6_Witness ==
    /\ EquityDone /\ ~IsError
    /\ Len(EngineCalls) = 3
    /\ calc.state = "Finished"

\* C7: the board mask and the dead mask handed to start() are disjoint.
C7_BoardAndDeadDisjoint ==
    \A k \in 1..Len(StartCalls) : StartCalls[k].arg.board \cap StartCalls[k].arg.dead = {}

\* What makes a /equity request fail, read off the request: the body or the
\* hands array, the number of hands, the board, dead or range texts, or a
\* configuration that start() rejects.
EquityRequestFails ==
    \/ ~HasHandsArray
    \/ \E k \in DOMAIN body.hands : ~body.hands[k].is_string
    \/ Len(body.hands) < MinHands \/ Len(body.hands) > MaxHands
    \/ (body.board # <<>> /\ ~getCardMask(body.board).ok)
    \/ (body.dead # <<>> /\ ~getCardMask(body.dead).ok)
    \/ \E k \in DOMAIN body.hands : ~CardRange(body.hands[k].text).ok
    \/ ~StartAccepts([k \in DOMAIN body.hands |-> CardRange(body.hands[k].text)],
                     getCardMask(body.board).mask, getCardMask(body.dead).mask)

\* C8: a /equity request that fails at any step is answered with an error and
\* none of the result fields; a response is either an error or a result, and a
\* result carries all six fields with one equities, wins and ties entry per
\* submitted hand.
C8_ErrorOrResult ==
    route = "equity" =>
        /\ Responded <=> pc = "done"
        /\ pc = "done" =>
              /\ \/ DOMAIN res.body = {"error"}
                 \/ /\ DOMAIN res.body = ResultFields
                    /\ Len(res.body.equities) = Len(body.hands)
                    /\ Len(res.body.wins) = Len(body.hands)
                    /\ Len(res.body.ties) = Len(body.hands)
              /\ EquityRequestFails <=> IsError
              /\ IsError <=> res.status \in {StatusBadRequest, StatusServerError}

\* A request that fails after its masks were parsed, at a range text.
C8_Witness ==
    /\ EquityDone /\ IsError
    /\ calls # <<>>
    /\ calls[Len(calls)].op = "CardRange"

\* C9: when enumerate_all is omitted, the flag passed to start() and echoed as
\* enumerated_all is true exactly when the board holds at most 3 cards; when it
\* is supplied, its value is used unchanged.
C9_EnumerateAllDefault ==
    route = "equity" =>
        \A k \in 1..Len(StartCalls) :
            LET flag == StartCalls[k].arg.enumerateAll
                want == CASE body.enumerate_all = "true" -> TRUE
                          [] body.enumerate_all = "false" -> FALSE
                          [] OTHER -> Cardinality(StartCalls[k].arg.board) <= 3
            IN  /\ flag = want
                /\ (pc = "done" /\ ~IsError) => res.body.enumerated_all = want

====
